---- MODULE Spec2Model ----
(***************************************************************************)
(* A model of src/main.py: a Flask application that receives JPEG uploads, *)
(* asks a generative model for a JSON title/description, stores the image  *)
(* and a JSON metadata document in one bucket, and lists the bucket as a   *)
(* gallery ordered by upload timestamp.                                    *)
(*                                                                         *)
(* A text is a sequence of characters in which a complete JSON string      *)
(* literal is one element; file names are sequences of characters; JSON    *)
(* values are records [k, s, n, e, d]; the bucket and the local upload     *)
(* directory are functions from names to contents.  Characters are the     *)
(* ASCII characters and "\n", "\r", "\t".                                  *)
(*                                                                         *)
(* upload() is split at every point where another request can act between  *)
(* two of its effects: the open and the write of file.save, the read and   *)
(* the remote write of upload_from_filename, the clock reading and the     *)
(* remote write of upload_json_to_cloud.  Requests are numbered in order   *)
(* of arrival; last records how the request that ended last was answered.  *)
(*                                                                         *)
(* Scope: the inside of a string literal is not looked into (escapes, and  *)
(* the replacements of line 42 acting within a literal); integers and      *)
(* float mantissas stay below 2^31; subnormal floats and the order of      *)
(* timestamps that are not numbers are left undefined; uploaded files are  *)
(* of one length and are written in one piece.                             *)
(***************************************************************************)
EXTENDS Integers, Sequences, FiniteSets, TLC

(* ------------------------------------------------------------------ *)
(* Bounds of the model                                                 *)
(* ------------------------------------------------------------------ *)

\* longest enumerated response text, in elements
MaxLen == 3
\* number of upload requests in one behaviour
MaxUploads == 2

(* ------------------------------------------------------------------ *)
(* Sequences helpers                                                   *)
(* ------------------------------------------------------------------ *)

Drop(s, k) == SubSeq(s, k + 1, Len(s))

Take(s, k) == SubSeq(s, 1, k)

StartsWith(s, pre) ==
    /\ Len(pre) <= Len(s)
    /\ Take(s, Len(pre)) = pre

\* str.endswith
EndsWith(s, suf) ==
    /\ Len(suf) <= Len(s)
    /\ Drop(s, Len(s) - Len(suf)) = suf

\* str.rfind for one character, 1-based; 0 when the character is absent
RFind(s, c) ==
    LET hits == {i \in DOMAIN s : s[i] = c}
    IN  IF hits = {} THEN 0 ELSE CHOOSE i \in hits : \A j \in hits : j <= i

\* str.replace(old, ""): leftmost non-overlapping occurrences removed
RECURSIVE Remove(_, _)
Remove(s, old) ==
    IF s = <<>> THEN <<>>
    ELSE IF StartsWith(s, old) THEN Remove(Drop(s, Len(old)), old)
    ELSE <<Head(s)>> \o Remove(Tail(s), old)

(* ------------------------------------------------------------------ *)
(* Characters and file names                                           *)
(* ------------------------------------------------------------------ *)

\* the ASCII characters, from code point 32 to 126; the grave
\* accent, which a TLA+ string cannot hold, is written "backtick"
AsciiChars ==
    <<" ", "!", "\"", "#", "$", "%", "&", "'", "(", ")", "*", "+", ",", "-", ".", "/",
      "0", "1", "2", "3", "4", "5", "6", "7", "8", "9", ":", ";", "<", "=", ">", "?",
      "@", "A", "B", "C", "D", "E", "F", "G", "H", "I", "J", "K", "L", "M", "N", "O",
      "P", "Q", "R", "S", "T", "U", "V", "W", "X", "Y", "Z", "[", "\\", "]", "^", "_",
      "backtick", "a", "b", "c", "d", "e", "f", "g", "h", "i", "j", "k", "l", "m", "n", "o",
      "p", "q", "r", "s", "t", "u", "v", "w", "x", "y", "z", "{", "|", "}", "~">>

\* code points
Code ==
    [c \in {AsciiChars[i] : i \in DOMAIN AsciiChars} \cup {"\t", "\n", "\r"} |->
        CASE c = "\t" -> 9
          [] c = "\n" -> 10
          [] c = "\r" -> 13
          [] OTHER -> 31 + CHOOSE i \in DOMAIN AsciiChars : AsciiChars[i] = c]

Ord(c) == Code[c]

\* str.lower on one character
LowerChar(c) == IF Ord(c) \in 65..90 THEN AsciiChars[Ord(c) + 1] ELSE c

Lower(s) == [i \in DOMAIN s |-> LowerChar(s[i])]

DotJpg == <<".", "j", "p", "g">>
DotJpeg == <<".", "j", "p", "e", "g">>
DotJson == <<".", "j", "s", "o", "n">>
UploadDir == <<".", "/", "u", "p", "l", "o", "a", "d", "s">>

\* the test of main.py lines 112, 246 and 270
IsImageName(f) == EndsWith(Lower(f), DotJpg) \/ EndsWith(Lower(f), DotJpeg)

\* os.path.splitext(p)[0]: the extension starts at the last dot, unless that
\* dot leads the last path component
SplitExtRoot(p) ==
    LET sepIndex == RFind(p, "/")
        dotIndex == RFind(p, ".")
    IN  IF dotIndex > sepIndex
           /\ \E i \in (sepIndex + 1)..(dotIndex - 1) : p[i] # "."
        THEN Take(p, dotIndex - 1)
        ELSE p

\* os.path.basename
Basename(p) == Drop(p, RFind(p, "/"))

\* os.path.join(a, b) for a not ending in a separator
PathJoin(a, b) == IF StartsWith(b, <<"/">>) THEN b ELSE a \o <<"/">> \o b

\* a file name that leads out of ./uploads or back into it (an absolute
\* name, a first component "." or ".."): the model gives it no directory
Elsewhere == CHOOSE v \in {} : TRUE

\* the file named f has no directory to be made in: ./uploads is made empty
\* (main.py line 17) and nothing makes a directory under it, so a name with
\* a directory part has none
DirMissing(f) ==
    IF \A i \in DOMAIN f : f[i] # "/" THEN FALSE
    ELSE LET first == Take(f, (CHOOSE i \in DOMAIN f :
                                  f[i] = "/" /\ \A j \in 1..(i - 1) : f[j] # "/") - 1)
         IN  IF first \in {<<>>, <<".">>, <<".", ".">>} THEN Elsewhere ELSE TRUE

\* os.path.splitext(filename)[0] + ".json" (main.py lines 82 and 114)
JsonName(f) == SplitExtRoot(f) \o DotJson

\* a < b in lexicographic order of code points
RECURSIVE NameLess(_, _)
NameLess(a, b) ==
    IF b = <<>> THEN FALSE
    ELSE IF a = <<>> THEN TRUE
    ELSE IF Head(a) # Head(b) THEN Ord(Head(a)) < Ord(Head(b))
    ELSE NameLess(Tail(a), Tail(b))

(* ------------------------------------------------------------------ *)
(* Texts                                                               *)
(* ------------------------------------------------------------------ *)

\* one character of a text, other than the double quote
Ch(c) == [t |-> "ch", s |-> c]

\* a complete string literal of a text, quotes included; s is the string it
\* denotes.  Its characters are not texts' elements: the literal holds no
\* "\n", "\r", "\t" and no "```" as written
StrT(s) == [t |-> "str", s |-> s]

\* the text made of the characters cs
Cs(cs) == [i \in DOMAIN cs |-> Ch(cs[i])]

Fence == Cs(<<"backtick", "backtick", "backtick">>)
FenceJson == Cs(<<"backtick", "backtick", "backtick", "j", "s", "o", "n">>)

\* text[i] is the character c
IsCh(text, i, c) == i <= Len(text) /\ text[i] = Ch(c)

\* text[i] is a digit
IsDigit(text, i) == i <= Len(text) /\ text[i].t = "ch" /\ Ord(text[i].s) \in 48..57

\* the characters cs stand in text from position i on
HasWord(text, i, cs) ==
    /\ i + Len(cs) - 1 <= Len(text)
    /\ \A k \in DOMAIN cs : text[i + k - 1] = Ch(cs[k])

(* ------------------------------------------------------------------ *)
(* JSON values                                                         *)
(* ------------------------------------------------------------------ *)

\* a JSON value as Python holds it: k is its kind.  A str has its string in
\* s, an int ("num") its value in n, a bool 0 or 1 in n.  A float is "nan",
\* "inf" or "-inf" in s, or else the decimal (-)n * 10^e with the sign in s
\* and no trailing zero in n.  An object's d is its members in dict order,
\* an array's d its elements (under the key "")
Val(k, s, n, e, d) == [k |-> k, s |-> s, n |-> n, e |-> e, d |-> d]
VStr(s) == Val("str", s, 0, 0, <<>>)
VNum(n) == Val("num", "", n, 0, <<>>)
VBool(b) == Val("bool", "", IF b THEN 1 ELSE 0, 0, <<>>)
VNull == Val("null", "", 0, 0, <<>>)
VFloat(neg, m, e) == Val("float", IF neg THEN "-" ELSE "", m, e, <<>>)
VNaN == Val("float", "nan", 0, 0, <<>>)
VInf(neg) == Val("float", IF neg THEN "-inf" ELSE "inf", 0, 0, <<>>)
VObj(d) == Val("obj", "", 0, 0, d)
VArr(d) == Val("arr", "", 0, 0, d)
Member(key, v) == [key |-> key, val |-> v]

\* dict.__contains__
DictHas(d, key) == \E i \in DOMAIN d : d[i].key = key

\* dict.get(key, default)
DictGet(d, key, default) ==
    IF DictHas(d, key)
    THEN d[CHOOSE i \in DOMAIN d : d[i].key = key].val
    ELSE default

\* dict.__setitem__: an existing key keeps its place, a new key goes last
DictSet(d, key, v) ==
    IF DictHas(d, key)
    THEN [i \in DOMAIN d |-> IF d[i].key = key THEN Member(key, v) ELSE d[i]]
    ELSE Append(d, Member(key, v))

(* ------------------------------------------------------------------ *)
(* Numbers                                                             *)
(* ------------------------------------------------------------------ *)

\* the values of the digits text[i..j-1]
DigitsOf(text, i, j) == [k \in 1..(j - i) |-> Ord(text[i + k - 1].s) - 48]

\* int() of a sequence of digits
RECURSIVE IntOf(_)
IntOf(ds) ==
    IF ds = <<>> THEN 0
    ELSE 10 * IntOf(Take(ds, Len(ds) - 1)) + ds[Len(ds)]

\* the same for an exponent; an exponent past 99999 has the effect of 99999
RECURSIVE ExpOf(_)
ExpOf(ds) ==
    IF ds = <<>> THEN 0
    ELSE LET v == 10 * ExpOf(Take(ds, Len(ds) - 1)) + ds[Len(ds)]
         IN  IF v > 99999 THEN 99999 ELSE v

RECURSIVE LStrip(_)
LStrip(ds) == IF ds # <<>> /\ Head(ds) = 0 THEN LStrip(Tail(ds)) ELSE ds

RECURSIVE RStrip(_)
RStrip(ds) ==
    IF ds # <<>> /\ ds[Len(ds)] = 0 THEN RStrip(Take(ds, Len(ds) - 1)) ELSE ds

\* the decimal digits of n >= 0
RECURSIVE DigitsOfInt(_)
DigitsOfInt(n) ==
    IF n < 10 THEN <<n>> ELSE DigitsOfInt(n \div 10) \o <<n % 10>>

\* a double between the least subnormal and the least normal double: it is
\* not the decimal it was written as, and the model gives it no value
Subnormal == CHOOSE v \in {} : TRUE

\* a < b for sequences of digits read as decimal fractions 0.a and 0.b
RECURSIVE FracLess(_, _)
FracLess(a, b) ==
    IF b = <<>> THEN FALSE
    ELSE IF a = <<>> THEN TRUE
    ELSE IF Head(a) # Head(b) THEN Head(a) < Head(b)
    ELSE FracLess(Tail(a), Tail(b))

\* a decimal of more than 15 digits: float() rounds it to the nearest double,
\* which is not the decimal it was written as, and the model gives it no
\* value
Unrounded == CHOOSE v \in {} : TRUE

\* the thresholds of float(), each cut to its leading digits; a decimal of at
\* most 15 digits lies on the same side of the cut as of the full threshold.
\* 0.HalfwayToInf... * 10^309 lies halfway between the largest double and
\* the next power of two
HalfwayToInf == <<1, 7, 9, 7, 6, 9, 3, 1, 3, 4, 8, 6, 2, 3, 1, 5, 8, 0, 7, 9, 3, 7, 2, 8, 9, 7, 1, 4, 0, 5, 3>>
\* 0.LeastNormal... * 10^-307 lies halfway between the largest subnormal
\* and the least normal double
LeastNormal == <<2, 2, 2, 5, 0, 7, 3, 8, 5, 8, 5, 0, 7, 2, 0, 1, 1, 3, 6, 1>>
\* 0.HalfLeast... * 10^-323 is half the least subnormal double
HalfLeast == <<2, 4, 7, 0, 3, 2, 8, 2, 2, 9, 2, 0, 6, 2, 3, 2, 7, 2, 0, 8>>

\* float() of the decimal (-)0.sig * 10^decpt, sig without leading or
\* trailing zeros and of at most 15 digits: the decimal itself where a double
\* holds it, infinity past the largest double, zero up to half the least
\* subnormal
MakeFloat(neg, sig, decpt) ==
    IF sig = <<>> THEN VFloat(neg, 0, 0)
    ELSE IF Len(sig) > 15 THEN Unrounded
    ELSE IF decpt > 309 \/ (decpt = 309 /\ ~FracLess(sig, HalfwayToInf)) THEN VInf(neg)
    ELSE IF decpt < -323 \/ (decpt = -323 /\ FracLess(sig, HalfLeast)) THEN VFloat(neg, 0, 0)
    ELSE IF decpt < -307 \/ (decpt = -307 /\ FracLess(sig, LeastNormal)) THEN Subnormal
    ELSE VFloat(neg, IntOf(sig), decpt - Len(sig))

\* float(text) for the digits ds of integer and fraction, fracLen of them in
\* the fraction, and the exponent exp10
FloatOf(neg, ds, fracLen, exp10) ==
    LET lead == LStrip(ds)
        sig == RStrip(lead)
    IN  MakeFloat(neg, sig, exp10 - fracLen + Len(lead))

\* float.__repr__ of a finite float: the shortest digits, with an exponent
\* when the decimal point lies more than 16 places behind the first digit or
\* more than 3 places before it
FloatRepr(v) ==
    LET sign == IF v.s = "-" THEN <<"-">> ELSE <<>>
        ds == [i \in DOMAIN DigitsOfInt(v.n) |-> AsciiChars[DigitsOfInt(v.n)[i] + 17]]
        nd == Len(ds)
        decpt == v.e + nd
        zeros(k) == [i \in 1..k |-> "0"]
        x == decpt - 1
        ax == IF x < 0 THEN -x ELSE x
        xs == [i \in DOMAIN DigitsOfInt(ax) |-> AsciiChars[DigitsOfInt(ax)[i] + 17]]
    IN  IF v.n = 0 THEN sign \o <<"0", ".", "0">>
        ELSE IF decpt > 16 \/ decpt < -3
        THEN sign \o <<ds[1]>> \o (IF nd > 1 THEN <<".">> \o Tail(ds) ELSE <<>>)
             \o <<"e", IF x < 0 THEN "-" ELSE "+">>
             \o (IF ax < 10 THEN <<"0">> ELSE <<>>) \o xs
        ELSE IF decpt <= 0 THEN sign \o <<"0", ".">> \o zeros(-decpt) \o ds
        ELSE IF decpt >= nd THEN sign \o ds \o zeros(decpt - nd) \o <<".", "0">>
        ELSE sign \o Take(ds, decpt) \o <<".">> \o Drop(ds, decpt)

(* ------------------------------------------------------------------ *)
(* json.loads and json.dumps                                           *)
(* ------------------------------------------------------------------ *)

\* json.decoder.WHITESPACE
RECURSIVE SkipWs(_, _)
SkipWs(text, i) ==
    IF i <= Len(text) /\ text[i].t = "ch" /\ text[i].s \in {" ", "\t", "\n", "\r"}
    THEN SkipWs(text, i + 1)
    ELSE i

\* the first position from i on that holds no digit
RECURSIVE DigitsEnd(_, _)
DigitsEnd(text, i) == IF IsDigit(text, i) THEN DigitsEnd(text, i + 1) ELSE i

ParseFail == [ok |-> FALSE, v |-> VNull, next |-> 0]
Parsed(v, next) == [ok |-> TRUE, v |-> v, next |-> next]

\* json.scanner.NUMBER_RE at position i,
\* (-?(?:0|[1-9][0-9]*))(\.[0-9]+)?([eE][-+]?[0-9]+)?, and the int or the
\* float of what it matched
MatchNumber(text, i) ==
    LET neg == IsCh(text, i, "-")
        intStart == IF neg THEN i + 1 ELSE i
        intEnd == IF IsCh(text, intStart, "0") THEN intStart + 1
                  ELSE DigitsEnd(text, intStart)
        hasFrac == IsCh(text, intEnd, ".") /\ IsDigit(text, intEnd + 1)
        fracEnd == IF hasFrac THEN DigitsEnd(text, intEnd + 1) ELSE intEnd
        hasE == IsCh(text, fracEnd, "e") \/ IsCh(text, fracEnd, "E")
        hasSign == IsCh(text, fracEnd + 1, "+") \/ IsCh(text, fracEnd + 1, "-")
        expStart == IF hasSign THEN fracEnd + 2 ELSE fracEnd + 1
        hasExp == hasE /\ IsDigit(text, expStart)
        expEnd == IF hasExp THEN DigitsEnd(text, expStart) ELSE fracEnd
        intDigits == DigitsOf(text, intStart, intEnd)
        fracDigits == IF hasFrac THEN DigitsOf(text, intEnd + 1, fracEnd) ELSE <<>>
        absExp == IF hasExp THEN ExpOf(DigitsOf(text, expStart, expEnd)) ELSE 0
        exp10 == IF IsCh(text, fracEnd + 1, "-") THEN -absExp ELSE absExp
    IN  IF intEnd = intStart THEN ParseFail
        ELSE IF hasFrac \/ hasExp
        THEN Parsed(FloatOf(neg, intDigits \o fracDigits, Len(fracDigits), exp10), expEnd)
        ELSE Parsed(VNum(IF neg THEN -IntOf(intDigits) ELSE IntOf(intDigits)), intEnd)

RECURSIVE ParseValue(_, _)
RECURSIVE ParseMembers(_, _, _)
RECURSIVE ParseElements(_, _, _)

\* json.decoder.JSONObject after the first key position: text[i] is to be a key
ParseMembers(text, i, acc) ==
    IF i > Len(text) \/ text[i].t # "str" THEN ParseFail
    ELSE
    LET c == SkipWs(text, i + 1)
    IN  IF ~IsCh(text, c, ":") THEN ParseFail
        ELSE
        LET r == ParseValue(text, SkipWs(text, c + 1))
        IN  IF ~r.ok THEN ParseFail
            ELSE
            LET acc2 == DictSet(acc, text[i].s, r.v)
                e == SkipWs(text, r.next)
            IN  IF IsCh(text, e, "}") THEN Parsed(VObj(acc2), e + 1)
                ELSE IF IsCh(text, e, ",") THEN ParseMembers(text, SkipWs(text, e + 1), acc2)
                ELSE ParseFail

\* json.decoder.JSONArray after the first element position
ParseElements(text, i, acc) ==
    LET r == ParseValue(text, i)
    IN  IF ~r.ok THEN ParseFail
        ELSE
        LET acc2 == Append(acc, Member("", r.v))
            e == SkipWs(text, r.next)
        IN  IF IsCh(text, e, "]") THEN Parsed(VArr(acc2), e + 1)
            ELSE IF IsCh(text, e, ",") THEN ParseElements(text, SkipWs(text, e + 1), acc2)
            ELSE ParseFail

\* json.scanner scan_once: one value starting at text[i]
ParseValue(text, i) ==
    IF i > Len(text) THEN ParseFail
    ELSE IF text[i].t = "str" THEN Parsed(VStr(text[i].s), i + 1)
    ELSE IF IsCh(text, i, "{") THEN
        LET j == SkipWs(text, i + 1)
        IN  IF IsCh(text, j, "}") THEN Parsed(VObj(<<>>), j + 1)
            ELSE ParseMembers(text, j, <<>>)
    ELSE IF IsCh(text, i, "[") THEN
        LET j == SkipWs(text, i + 1)
        IN  IF IsCh(text, j, "]") THEN Parsed(VArr(<<>>), j + 1)
            ELSE ParseElements(text, j, <<>>)
    ELSE IF HasWord(text, i, <<"n", "u", "l", "l">>) THEN Parsed(VNull, i + 4)
    ELSE IF HasWord(text, i, <<"t", "r", "u", "e">>) THEN Parsed(VBool(TRUE), i + 4)
    ELSE IF HasWord(text, i, <<"f", "a", "l", "s", "e">>) THEN Parsed(VBool(FALSE), i + 5)
    ELSE IF MatchNumber(text, i).ok THEN MatchNumber(text, i)
    ELSE IF HasWord(text, i, <<"N", "a", "N">>) THEN Parsed(VNaN, i + 3)
    ELSE IF HasWord(text, i, <<"I", "n", "f", "i", "n", "i", "t", "y">>)
         THEN Parsed(VInf(FALSE), i + 8)
    ELSE IF HasWord(text, i, <<"-", "I", "n", "f", "i", "n", "i", "t", "y">>)
         THEN Parsed(VInf(TRUE), i + 9)
    ELSE ParseFail

\* json.loads: one value between optional whitespace, and nothing after it;
\* ok = FALSE stands for json.JSONDecodeError
Loads(text) ==
    LET r == ParseValue(text, SkipWs(text, 1))
    IN  IF r.ok /\ SkipWs(text, r.next) = Len(text) + 1
        THEN [ok |-> TRUE, v |-> r.v]
        ELSE [ok |-> FALSE, v |-> VNull]

RECURSIVE Dumps(_)
RECURSIVE DumpsItems(_, _, _)

\* the members or elements d[i..] with json.dumps' separators ", " and ": "
DumpsItems(d, i, isObj) ==
    IF i > Len(d) THEN <<>>
    ELSE (IF i > 1 THEN Cs(<<",", " ">>) ELSE <<>>)
         \o (IF isObj THEN <<StrT(d[i].key)>> \o Cs(<<":", " ">>) ELSE <<>>)
         \o Dumps(d[i].val)
         \o DumpsItems(d, i + 1, isObj)

\* json.dumps
Dumps(v) ==
    CASE v.k = "str" -> <<StrT(v.s)>>
      [] v.k = "num" ->
            Cs((IF v.n < 0 THEN <<"-">> ELSE <<>>)
               \o [i \in DOMAIN DigitsOfInt(IF v.n < 0 THEN -v.n ELSE v.n) |->
                      AsciiChars[DigitsOfInt(IF v.n < 0 THEN -v.n ELSE v.n)[i] + 17]])
      [] v.k = "bool" ->
            IF v.n = 1 THEN Cs(<<"t", "r", "u", "e">>) ELSE Cs(<<"f", "a", "l", "s", "e">>)
      [] v.k = "float" ->
            IF v.s = "nan" THEN Cs(<<"N", "a", "N">>)
            ELSE IF v.s = "inf" THEN Cs(<<"I", "n", "f", "i", "n", "i", "t", "y">>)
            ELSE IF v.s = "-inf" THEN Cs(<<"-", "I", "n", "f", "i", "n", "i", "t", "y">>)
            ELSE Cs(FloatRepr(v))
      [] v.k = "null" -> Cs(<<"n", "u", "l", "l">>)
      [] v.k = "obj" -> Cs(<<"{">>) \o DumpsItems(v.d, 1, TRUE) \o Cs(<<"}">>)
      [] v.k = "arr" -> Cs(<<"[">>) \o DumpsItems(v.d, 1, FALSE) \o Cs(<<"]">>)

(* ------------------------------------------------------------------ *)
(* Annotation client (main.py lines 29-54)                             *)
(* ------------------------------------------------------------------ *)

\* str.replace of "\n", "\r" and "\t" by " "
SpaceControls(text) ==
    [i \in DOMAIN text |->
        IF text[i].t = "ch" /\ text[i].s \in {"\n", "\r", "\t"}
        THEN Ch(" ")
        ELSE text[i]]

\* line 42: control characters to spaces, then "```json" and "```" removed
Clean(text) == Remove(Remove(SpaceControls(text), FenceJson), Fence)

\* lines 49-52
Fallback ==
    VObj(<<Member("title", VStr("error encountered in generating title")),
           Member("description", VStr("error encountered in generating description"))>>)

\* lines 42-54: what analyze_image_with_gemini returns for response.text
analyze_image_with_gemini(text) ==
    LET r == Loads(Clean(text))
    IN  IF r.ok THEN r.v ELSE Fallback

(* ------------------------------------------------------------------ *)
(* Bucket and metadata store (main.py lines 57-104)                    *)
(* ------------------------------------------------------------------ *)

\* a function with one more point, or one point changed
Put(fn, key, v) == [m \in (DOMAIN fn) \cup {key} |-> IF m = key THEN v ELSE fn[m]]

\* a function with one point less
Del(fn, key) == [m \in (DOMAIN fn) \ {key} |-> fn[m]]

ImageBlob(b) == [ctype |-> "image/jpeg", bytes |-> b, text |-> <<>>]
JsonBlob(text) == [ctype |-> "application/json", bytes |-> 0, text |-> text]

\* the names of a set in the bucket's listing order
RECURSIVE SortedNames(_)
SortedNames(S) ==
    IF S = {} THEN <<>>
    ELSE LET first == CHOOSE n \in S : \A m \in S \ {n} : NameLess(n, m)
         IN  <<first>> \o SortedNames(S \ {first})

\* lines 57-63
list_cloud_files(st) == SortedNames(DOMAIN st)

\* lines 66-77: the bucket after the upload of the local file `file`, of
\* which upload_from_filename has read the bytes `content`
upload_file_to_cloud(st, file, content) == Put(st, Basename(file), ImageBlob(content))

\* line 86 left out: the document is uploaded as it came
Unstamped(json_data, t) == json_data

\* line 86: json_data["upload_timestamp"] = int(time.time()), in place
Stamped(json_data, t) == VObj(DictSet(json_data.d, "upload_timestamp", VNum(t)))

\* lines 82-93 with splitext(filename)[1] for [0] in line 82: every .jpg
\* file shares the document .jpg.json
upload_json_to_cloud_ext(st, json_data, filename) ==
    LET json_filename == Drop(filename, Len(SplitExtRoot(filename))) \o DotJson
    IN  [store |-> Put(st, json_filename, JsonBlob(Dumps(json_data))),
         ret |-> json_filename]

\* lines 82-93 after line 86: the bucket after the upload of the stamped
\* json_data, and the name returned
upload_json_to_cloud(st, json_data, filename) ==
    LET json_filename == JsonName(filename)
    IN  [store |-> Put(st, json_filename, JsonBlob(Dumps(json_data))),
         ret |-> json_filename]

\* line 101 with the time of the lookup for timestamp
PlaceholderStamped ==
    VObj(<<Member("title", VStr("No metadata available")),
           Member("description", VStr("No description available")),
           Member("upload_timestamp", VNum(1))>>)

\* line 101
Placeholder ==
    VObj(<<Member("title", VStr("No metadata available")),
           Member("description", VStr("No description available")),
           Member("upload_timestamp", VNum(0))>>)

\* lines 96-104; raised stands for an exception leaving the function
get_json_from_cloud(st, json_filename) ==
    IF json_filename \notin DOMAIN st
    THEN [raised |-> FALSE, v |-> Placeholder]
    ELSE LET r == Loads(st[json_filename].text)
         IN  [raised |-> ~r.ok, v |-> r.v]

(* ------------------------------------------------------------------ *)
(* Gallery (main.py lines 107-133)                                     *)
(* ------------------------------------------------------------------ *)

\* url_for('serve_file', filename=...) and url_for('serve_json', ...), for
\* names of letters, digits and dots, which the URL rules leave as they are
FileUrl(filename) == <<"/", "f", "i", "l", "e", "/">> \o filename
JsonUrl(filename) == <<"/", "j", "s", "o", "n", "/">> \o filename

\* lines 114-128: the entry of one image; raised stands for an exception:
\* from the load of the document, or the AttributeError of metadata.get when
\* the document is no object
GalleryEntry(st, file) ==
    LET json_filename == JsonName(file)
        metadata == get_json_from_cloud(st, json_filename)
        d == IF metadata.v.k = "obj" THEN metadata.v.d ELSE <<>>
    IN  [raised |-> metadata.raised \/ metadata.v.k # "obj",
         v |-> [filename |-> file,
                image_url |-> FileUrl(file),
                json_url |-> JsonUrl(json_filename),
                title |-> DictGet(d, "title", VStr("No title available")),
                description |-> DictGet(d, "description", VStr("No description available")),
                timestamp |-> DictGet(d, "upload_timestamp", VNum(0))]]

\* the value is a number that Python orders: an int, a bool, a float but NaN
IsNumber(v) == v.k \in {"num", "bool"} \/ (v.k = "float" /\ v.s # "nan")

\* -1, 0 or 1
SignOf(v) ==
    IF v.k \in {"num", "bool"} THEN (IF v.n < 0 THEN -1 ELSE IF v.n = 0 THEN 0 ELSE 1)
    ELSE IF v.s = "inf" THEN 1
    ELSE IF v.s = "-inf" THEN -1
    ELSE IF v.n = 0 THEN 0
    ELSE IF v.s = "-" THEN -1
    ELSE 1

\* the magnitude of a number other than zero, as 0.sig * 10^decpt
Magnitude(v) ==
    LET n == IF v.n < 0 THEN -v.n ELSE v.n
        ds == DigitsOfInt(n)
    IN  [inf |-> v.k = "float" /\ v.s \in {"inf", "-inf"},
         sig |-> RStrip(ds),
         decpt |-> Len(ds) + (IF v.k = "float" THEN v.e ELSE 0)]

MagLess(a, b) ==
    IF a.inf THEN FALSE
    ELSE IF b.inf THEN TRUE
    ELSE IF a.decpt # b.decpt THEN a.decpt < b.decpt
    ELSE FracLess(a.sig, b.sig)

\* a < b for the numbers a and b
NumLess(a, b) ==
    IF a.k = "num" /\ b.k = "num" THEN a.n < b.n
    ELSE IF SignOf(a) # SignOf(b) THEN SignOf(a) < SignOf(b)
    ELSE IF SignOf(a) = 0 THEN FALSE
    ELSE IF SignOf(a) = 1 THEN MagLess(Magnitude(a), Magnitude(b))
    ELSE MagLess(Magnitude(b), Magnitude(a))

\* the sort of line 131 without reverse=True: ascending
RECURSIVE InsertAsc(_, _)
InsertAsc(sorted, x) ==
    IF sorted = <<>> THEN <<x>>
    ELSE IF ~NumLess(x.timestamp, Head(sorted).timestamp)
         THEN <<Head(sorted)>> \o InsertAsc(Tail(sorted), x)
         ELSE <<x>> \o sorted

\* list.sort(key=timestamp, reverse=True) inserts stably: x goes after every
\* entry whose timestamp is at least its own
RECURSIVE InsertDesc(_, _)
InsertDesc(sorted, x) ==
    IF sorted = <<>> THEN <<x>>
    ELSE IF ~NumLess(Head(sorted).timestamp, x.timestamp)
         THEN <<Head(sorted)>> \o InsertDesc(Tail(sorted), x)
         ELSE <<x>> \o sorted

RECURSIVE SortDesc(_, _)
SortDesc(entries, i) ==
    IF i = 0 THEN <<>> ELSE InsertDesc(SortDesc(entries, i - 1), entries[i])

\* lines 111-128: the entries in listing order
RECURSIVE ImageEntries(_, _)
ImageEntries(st, files) ==
    IF files = <<>> THEN <<>>
    ELSE (IF IsImageName(Head(files)) THEN <<GalleryEntry(st, Head(files))>> ELSE <<>>)
         \o ImageEntries(st, Tail(files))

\* timestamps that list.sort orders in ways the model does not describe:
\* strings among themselves, arrays among themselves, numbers with a NaN
Unordered == CHOOSE v \in {} : TRUE

\* lines 107-133; raised stands for an exception leaving the function: the
\* one of an entry, or the TypeError of a comparison in the sort between
\* timestamps that are not all numbers
get_all_images_with_metadata(st) ==
    LET loaded == ImageEntries(st, list_cloud_files(st))
        image_data == [i \in DOMAIN loaded |-> loaded[i].v]
        kinds == {image_data[i].timestamp.k : i \in DOMAIN image_data}
    IN  IF \E i \in DOMAIN loaded : loaded[i].raised
        THEN [raised |-> TRUE, v |-> <<>>]
        ELSE IF Len(image_data) < 2 \/ \A i \in DOMAIN image_data : IsNumber(image_data[i].timestamp)
        THEN [raised |-> FALSE, v |-> SortDesc(image_data, Len(image_data))]
        ELSE IF kinds = {"str"} \/ kinds = {"arr"} \/ kinds \subseteq {"num", "bool", "float"}
        THEN Unordered
        ELSE [raised |-> TRUE, v |-> <<>>]

(* ------------------------------------------------------------------ *)
(* State                                                               *)
(* ------------------------------------------------------------------ *)

VARIABLES
    store,      \* the bucket: object name -> blob
    localFS,    \* the local files under ./uploads: path -> inode and bytes
    nUploads,   \* upload requests received so far
    req,        \* per upload request, by its number in order of arrival
    last,       \* the request that ended last, and how it ended
    text,       \* a response text handed to the annotation client alone
    result      \* what the annotation client returned for it

vars == <<store, localFS, nUploads, req, last, text, result>>

\* the upload requests, numbered in order of arrival
Reqs == 1..MaxUploads

\* the threads that serve them: as many requests are in progress at a time
Workers == {"w1", "w2"}

NameAJpg == <<"a", ".", "j", "p", "g">>
NameAJpeg == <<"a", ".", "j", "p", "e", "g">>
NameBJPG == <<"B", ".", "J", "P", "G">>
NameATxt == <<"a", ".", "t", "x", "t">>
NameJpg == <<"j", "p", "g">>
NameSubAJpg == <<"s", "u", "b", "/", "a", ".", "j", "p", "g">>

\* the file names a client submits
Filenames == {NameAJpg, NameAJpeg, NameBJPG, NameATxt, NameJpg, NameSubAJpg}

\* the contents a client submits: each upload carries bytes of its own,
\* numbered by the order of arrival; all are of one length and none is empty
ContentOf(k) == k

\* the bytes of an empty file
EmptyFile == 0

\* {"title": "Cat", "description": "A cat."}
ObjectText ==
    <<Ch("{"), StrT("title"), Ch(":"), Ch(" "), StrT("Cat"), Ch(","), Ch(" "),
      StrT("description"), Ch(":"), Ch(" "), StrT("A cat."), Ch("}")>>

\* the same between ```json and ```, on lines of its own
FencedText == FenceJson \o Cs(<<"\n">>) \o ObjectText \o Cs(<<"\n">>) \o Fence

ProseText == Cs(<<"H", "e", "r", "e", " ", "i", "s", " ", "a", " ", "c", "a", "t">>)

NumberText == Cs(<<"4", "2">>)

\* what the clock of line 86 reads: time.time() is the wall clock, which may
\* stand still or be set back between two readings
ClockReadings == {1, 2}

\* the response texts the generative model gives in the pipeline
PipelineTexts == {FencedText, ProseText, NumberText}

NotRun == [done |-> FALSE, raised |-> FALSE, v |-> VNull]

\* a worker's request: pc is the line upload() has reached, file whether the
\* request carries the field form_file, fname and bytes the name and the
\* contents the client sent, fd the inode that file.save opened, resp the
\* response text and data the image_data made of it, sent what
\* upload_from_filename read, clock what int(time.time()) gave in line 86,
\* ret what upload_json_to_cloud returned
IdleReq ==
    [pc |-> "idle", file |-> FALSE, fname |-> <<>>, bytes |-> 0, fd |-> 0,
     resp |-> <<>>, data |-> VNull, sent |-> 0, clock |-> 0, ret |-> <<>>]

\* no request has ended yet
NoRequest ==
    [file |-> FALSE, fname |-> <<>>, response |-> "none", failedAt |-> "none",
     fault |-> FALSE]

Init ==
    /\ store = <<>>
    /\ localFS = <<>>
    /\ nUploads = 0
    /\ req = [r \in Reqs |-> IdleReq]
    /\ last = NoRequest
    /\ text = <<>>
    /\ result = NotRun

(* ------------------------------------------------------------------ *)
(* upload() (main.py lines 242-263), one action per step               *)
(* ------------------------------------------------------------------ *)

\* line 248
TempPath(f) == PathJoin(UploadDir, f)

\* open(path, "wb"): an existing file is emptied, else a new one is made
OpenTruncate(fs, path, ino) ==
    IF path \in DOMAIN fs
    THEN Put(fs, path, [fs[path] EXCEPT !.bytes = EmptyFile])
    ELSE Put(fs, path, [ino |-> ino, bytes |-> EmptyFile])

\* write through the open file: to the file under the path while that is
\* the one opened, else to a file no path leads to any more
WriteOpen(fs, path, ino, b) ==
    IF path \in DOMAIN fs /\ fs[path].ino = ino
    THEN Put(fs, path, [fs[path] EXCEPT !.bytes = b])
    ELSE fs

\* line 263: the request q ends with the redirect
Redirect(q) ==
    [file |-> q.file, fname |-> q.fname, response |-> "redirect",
     failedAt |-> "none", fault |-> FALSE]

\* upload() with its steps in a try block that swallows the exception
RaiseCaught(q, step, external) ==
    [file |-> q.file, fname |-> q.fname, response |-> "redirect",
     failedAt |-> step, fault |-> external]

\* an exception leaves upload(): the request q ends without the redirect;
\* external tells a failure of the step's remote call from an exception the
\* program's own state brings about
Raise(q, step, external) ==
    [file |-> q.file, fname |-> q.fname, response |-> "error",
     failedAt |-> step, fault |-> external]

\* the requests in progress
Running == {k \in Reqs : req[k].pc # "idle"}

\* the request as it arrives
Arrived(present, f, b) ==
    [IdleReq EXCEPT !.file = present,
                    !.fname = IF present THEN f ELSE <<>>,
                    !.bytes = IF present THEN b ELSE 0]

\* upload() without the test of line 246: every name is saved and processed
UploadReceiveAnyName(r, present, f, b) ==
    /\ r = nUploads + 1
    /\ nUploads < MaxUploads
    /\ Cardinality(Running) < Cardinality(Workers)
    /\ nUploads' = nUploads + 1
    /\ LET q == Arrived(present, f, b)
       IN  IF ~present
           THEN /\ localFS' = localFS
                /\ req' = req
                /\ last' = Raise(q, "receive", FALSE)
           ELSE IF DirMissing(f)
           THEN /\ localFS' = localFS
                /\ req' = req
                /\ last' = Raise(q, "save", FALSE)
           ELSE /\ localFS' = OpenTruncate(localFS, TempPath(f), r)
                /\ req' = [req EXCEPT ![r] = [q EXCEPT !.pc = "opened",
                                                       !.fd = localFS'[TempPath(f)].ino]]
                /\ last' = last
    /\ UNCHANGED <<store, text, result>>

\* lines 244-249 and 263: the request arrives.  Without the field form_file
\* line 244 raises; an image name is opened for writing under ./uploads (the
\* first half of file.save), which raises where the name has a directory
\* there is not; any other name goes straight to the redirect
UploadReceive(r, present, f, b) ==
    /\ r = nUploads + 1
    /\ nUploads < MaxUploads
    /\ Cardinality(Running) < Cardinality(Workers)
    /\ nUploads' = nUploads + 1
    /\ LET q == Arrived(present, f, b)
       IN  IF ~present
           THEN /\ localFS' = localFS
                /\ req' = req
                /\ last' = Raise(q, "receive", FALSE)
           ELSE IF f # <<>> /\ IsImageName(f) /\ DirMissing(f)
           THEN /\ localFS' = localFS
                /\ req' = req
                /\ last' = Raise(q, "save", FALSE)
           ELSE IF f # <<>> /\ IsImageName(f)
           THEN /\ localFS' = OpenTruncate(localFS, TempPath(f), r)
                /\ req' = [req EXCEPT ![r] = [q EXCEPT !.pc = "opened",
                                                       !.fd = localFS'[TempPath(f)].ino]]
                /\ last' = last
           ELSE /\ localFS' = localFS
                /\ req' = req
                /\ last' = Redirect(q)
    /\ UNCHANGED <<store, text, result>>

\* line 249, the second half of file.save: the bytes are written
UploadSave(r) ==
    /\ req[r].pc = "opened"
    /\ localFS' = WriteOpen(localFS, TempPath(req[r].fname), req[r].fd, req[r].bytes)
    /\ req' = [req EXCEPT ![r].pc = "saved"]
    /\ UNCHANGED <<store, nUploads, last, text, result>>

\* line 252 as far as genai.upload_file (line 32) opens the local file
UploadAnnotateRead(r) ==
    /\ req[r].pc = "saved"
    /\ IF TempPath(req[r].fname) \notin DOMAIN localFS
       THEN /\ req' = [req EXCEPT ![r] = IdleReq]
            /\ last' = Raise(req[r], "annotate", FALSE)
       ELSE /\ req' = [req EXCEPT ![r].pc = "attached"]
            /\ last' = last
    /\ UNCHANGED <<store, localFS, nUploads, text, result>>

\* line 252 from there: genai.upload_file sends the file to the service
UploadAnnotateSend(r, fail) ==
    /\ req[r].pc = "attached"
    /\ IF fail
       THEN /\ req' = [req EXCEPT ![r] = IdleReq]
            /\ last' = Raise(req[r], "annotate", TRUE)
       ELSE /\ req' = [req EXCEPT ![r].pc = "submitted"]
            /\ last' = last
    /\ UNCHANGED <<store, localFS, nUploads, text, result>>

\* line 252 from generate_content (line 39) on: the model answers, or the
\* call fails, and lines 42-54 make image_data of the answer
UploadAnnotate(r, reply, fail) ==
    /\ req[r].pc = "submitted"
    /\ IF fail
       THEN /\ req' = [req EXCEPT ![r] = IdleReq]
            /\ last' = Raise(req[r], "annotate", TRUE)
       ELSE /\ req' = [req EXCEPT ![r].pc = "annotated", ![r].resp = reply,
                                  ![r].data = analyze_image_with_gemini(reply)]
            /\ last' = last
    /\ UNCHANGED <<store, localFS, nUploads, text, result>>

\* line 255 as far as line 75 reads the local file
UploadImageRead(r) ==
    /\ req[r].pc = "annotated"
    /\ LET temp_path == TempPath(req[r].fname)
       IN  IF temp_path \notin DOMAIN localFS
           THEN /\ req' = [req EXCEPT ![r] = IdleReq]
                /\ last' = Raise(req[r], "image", FALSE)
           ELSE /\ req' = [req EXCEPT ![r].pc = "read", ![r].sent = localFS[temp_path].bytes]
                /\ last' = last
    /\ UNCHANGED <<store, localFS, nUploads, text, result>>

\* line 255 from there: the object is written in the bucket
UploadImageWrite(r, fail) ==
    /\ req[r].pc = "read"
    /\ IF fail
       THEN /\ req' = [req EXCEPT ![r] = IdleReq]
            /\ last' = Raise(req[r], "image", TRUE)
            /\ store' = store
       ELSE /\ store' = upload_file_to_cloud(store, TempPath(req[r].fname), req[r].sent)
            /\ req' = [req EXCEPT ![r].pc = "uploaded"]
            /\ last' = last
    /\ UNCHANGED <<localFS, nUploads, text, result>>

\* line 258 as far as line 86: the clock is read as t and image_data is
\* stamped in place; the item assignment raises TypeError unless image_data is
\* a dict
UploadStamp(r, t) ==
    /\ req[r].pc = "uploaded"
    /\ IF req[r].data.k # "obj"
       THEN /\ req' = [req EXCEPT ![r] = IdleReq]
            /\ last' = Raise(req[r], "metadata", FALSE)
       ELSE /\ req' = [req EXCEPT ![r].pc = "stamped", ![r].clock = t,
                                  ![r].data = Stamped(req[r].data, t)]
            /\ last' = last
    /\ UNCHANGED <<store, localFS, nUploads, text, result>>

\* line 258 with a rollback: a failed metadata upload deletes the image
UploadMetadataRollback(r, fail) ==
    /\ req[r].pc = "stamped"
    /\ IF fail
       THEN /\ req' = [req EXCEPT ![r] = IdleReq]
            /\ last' = Raise(req[r], "metadata", TRUE)
            /\ store' = Del(store, req[r].fname)
       ELSE LET up == upload_json_to_cloud(store, req[r].data, req[r].fname)
            IN  /\ store' = up.store
                /\ req' = [req EXCEPT ![r].pc = "stored", ![r].ret = up.ret]
                /\ last' = last
    /\ UNCHANGED <<localFS, nUploads, text, result>>

\* line 258 from line 88 on: the document is written in the bucket
UploadMetadata(r, fail) ==
    /\ req[r].pc = "stamped"
    /\ IF fail
       THEN /\ req' = [req EXCEPT ![r] = IdleReq]
            /\ last' = Raise(req[r], "metadata", TRUE)
            /\ store' = store
       ELSE LET up == upload_json_to_cloud(store, req[r].data, req[r].fname)
            IN  /\ store' = up.store
                /\ req' = [req EXCEPT ![r].pc = "stored", ![r].ret = up.ret]
                /\ last' = last
    /\ UNCHANGED <<localFS, nUploads, text, result>>

\* lines 261-263
UploadCleanup(r) ==
    /\ req[r].pc = "stored"
    /\ req' = [req EXCEPT ![r] = IdleReq]
    /\ LET temp_path == TempPath(req[r].fname)
       IN  IF temp_path \notin DOMAIN localFS
           THEN /\ last' = Raise(req[r], "remove", FALSE)
                /\ localFS' = localFS
           ELSE /\ localFS' = Del(localFS, temp_path)
                /\ last' = Redirect(req[r])
    /\ UNCHANGED <<store, nUploads, text, result>>

Next ==
    \/ \E r \in Reqs, present \in BOOLEAN, f \in Filenames :
          UploadReceive(r, present, f, ContentOf(r))
    \/ \E r \in Reqs : UploadSave(r)
    \/ \E r \in Reqs : UploadAnnotateRead(r)
    \/ \E r \in Reqs, fail \in BOOLEAN : UploadAnnotateSend(r, fail)
    \/ \E r \in Reqs, reply \in PipelineTexts, fail \in BOOLEAN : UploadAnnotate(r, reply, fail)
    \/ \E r \in Reqs : UploadImageRead(r)
    \/ \E r \in Reqs, fail \in BOOLEAN : UploadImageWrite(r, fail)
    \/ \E r \in Reqs, t \in ClockReadings : UploadStamp(r, t)
    \/ \E r \in Reqs, fail \in BOOLEAN : UploadMetadata(r, fail)
    \/ \E r \in Reqs : UploadCleanup(r)

Spec == Init /\ [][Next]_vars

(* ------------------------------------------------------------------ *)
(* The annotation client on its own                                    *)
(* ------------------------------------------------------------------ *)

\* the elements of the enumerated texts
Alphabet ==
    {Ch("{"), Ch("}"), Ch(":"), StrT("title"), Ch("4"), Ch("0"), Ch("-"), Ch("."),
     Ch("\n"), Ch("backtick")}

TitleOnlyText == <<Ch("{"), StrT("title"), Ch(":"), StrT("Cat"), Ch("}")>>

ArrayText == <<Ch("["), StrT("title"), Ch(","), Ch("\t"), StrT("description"), Ch("]")>>

\* {"title": "Cat", "ok": true, "score": -0.9e1}
MixedText ==
    <<Ch("{"), StrT("title"), Ch(":"), Ch(" "), StrT("Cat"), Ch(","), Ch(" "), StrT("ok")>>
    \o Cs(<<":", " ", "t", "r", "u", "e", ",", " ">>) \o <<StrT("score")>>
    \o Cs(<<":", " ", "-", "0", ".", "9", "e", "1", "}">>)

\* nu```ll and 0```5
SplitNullText == Cs(<<"n", "u">>) \o Fence \o Cs(<<"l", "l">>)
SplitNumberText == Cs(<<"0">>) \o Fence \o Cs(<<"5">>)

\* every text of at most MaxLen elements, and longer ones
Texts ==
    UNION {[1..n -> Alphabet] : n \in 0..MaxLen}
    \cup PipelineTexts
    \cup {ObjectText, TitleOnlyText, ArrayText, MixedText, SplitNullText, SplitNumberText,
          Cs(<<"t", "r", "u", "e">>), Cs(<<"f", "a", "l", "s", "e">>),
          Cs(<<"N", "a", "N">>), Cs(<<"-", "I", "n", "f", "i", "n", "i", "t", "y">>),
          Cs(<<"1", "E", "+", "2", "2">>)}

InitAnalyze ==
    /\ store = <<>>
    /\ localFS = <<>>
    /\ nUploads = 0
    /\ req = [r \in Reqs |-> IdleReq]
    /\ last = NoRequest
    /\ text \in Texts
    /\ result = NotRun

\* lines 42-54 on the response text
Analyze ==
    /\ ~result.done
    /\ result' = [done |-> TRUE, raised |-> FALSE, v |-> analyze_image_with_gemini(text)]
    /\ UNCHANGED <<store, localFS, nUploads, req, last, text>>

NextAnalyze == Analyze

SpecAnalyze == InitAnalyze /\ [][NextAnalyze]_vars

(* ------------------------------------------------------------------ *)
(* Vocabulary of the properties, stated apart from the code's helpers  *)
(* ------------------------------------------------------------------ *)

\* f ends in .jpg or .jpeg, compared case-insensitively
NamedJpeg(f) ==
    \E suf \in {DotJpg, DotJpeg} :
        /\ Len(f) >= Len(suf)
        /\ \A i \in 1..Len(suf) : LowerChar(f[Len(f) - Len(suf) + i]) = suf[i]

\* f with its .jpg or .jpeg extension replaced by .json
DerivedName(f) ==
    LET n == IF LowerChar(f[Len(f) - 3]) = "." THEN 4 ELSE 5
    IN  [i \in 1..(Len(f) - n) |-> f[i]] \o DotJson

\* the value carries a title and a description
HasFields(v) == v.k = "obj" /\ DictHas(v.d, "title") /\ DictHas(v.d, "description")

\* the response is not JSON, or JSON without the required fields, once the
\* fences are stripped and the whitespace normalised
Malformed(t) == LET r == Loads(Clean(t)) IN ~r.ok \/ ~HasFields(r.v)

\* this step ends request r: last' tells how.  A request ends in the step
\* that receives it or in a later step of its own
EndsNow(r) ==
    \/ req[r].pc # "idle" /\ req'[r].pc = "idle"
    \/ nUploads = r - 1 /\ nUploads' = r /\ req'[r].pc = "idle"

\* the request is past the step that read its local file for the image upload
HasRead(r) == req[r].pc \in {"read", "uploaded", "stamped", "stored"}

\* the gallery of the current bucket
View == get_all_images_with_metadata(store).v

\* the order of the steps of one request
StepOrder ==
    {<<"idle", "opened">>, <<"opened", "saved">>, <<"saved", "attached">>,
     <<"attached", "submitted">>, <<"submitted", "annotated">>,
     <<"annotated", "read">>, <<"read", "uploaded">>, <<"uploaded", "stamped">>,
     <<"stamped", "stored">>, <<"stored", "idle">>}

(* ------------------------------------------------------------------ *)
(* C1                                                                  *)
(* ------------------------------------------------------------------ *)

\* C1: for every malformed response text, analyze returns exactly the fixed
\* fallback pair and never raises.
C1_MalformedGivesFallback ==
    (result.done /\ Malformed(text)) => (~result.raised /\ result.v = Fallback)

(* ------------------------------------------------------------------ *)
(* C2                                                                  *)
(* ------------------------------------------------------------------ *)

\* C2: when an upload of a .jpg/.jpeg file whose annotation degraded ends,
\* and no storage call of it failed, it ends with the redirect, with the image
\* object and a metadata document carrying the fallback text in the store,
\* and with the transient local file deleted.
C2_DegradedUploadCompletes ==
    [][\A r \in Reqs :
          (req[r].pc \in {"annotated", "read", "uploaded", "stamped", "stored"}
              /\ req'[r].pc = "idle"
              /\ NamedJpeg(req[r].fname) /\ Malformed(req[r].resp) /\ ~last'.fault)
          => /\ last'.response = "redirect"
             /\ req[r].fname \in DOMAIN store'
             /\ DerivedName(req[r].fname) \in DOMAIN store'
             /\ LET m == get_json_from_cloud(store', DerivedName(req[r].fname)).v
                IN  /\ DictGet(m.d, "title", VNull) = DictGet(Fallback.d, "title", VNull)
                    /\ DictGet(m.d, "description", VNull)
                          = DictGet(Fallback.d, "description", VNull)
             /\ TempPath(req[r].fname) \notin DOMAIN localFS']_vars

(* ------------------------------------------------------------------ *)
(* C3                                                                  *)
(* ------------------------------------------------------------------ *)

\* C3: a request whose file has a name that does not end in .jpg or .jpeg
\* (compared case-insensitively) ends in the step that receives it, before
\* the step that invokes the annotation client, with the redirect and with
\* the bucket and the local files unchanged.
C3_OtherNamesIgnored ==
    [][\A r \in Reqs :
          \A got \in {IF req'[r].pc = "idle" THEN last' ELSE req'[r]} :
             (nUploads = r - 1 /\ nUploads' = r /\ got.file /\ ~NamedJpeg(got.fname))
             => /\ store' = store
                /\ localFS' = localFS
                /\ req'[r].pc = "idle"
                /\ last'.response = "redirect"]_vars

\* a request for a.txt was answered with the redirect while the bucket held objects
C3_Witness ==
    /\ last.file
    /\ last.fname = NameATxt
    /\ last.response = "redirect"
    /\ DOMAIN store # {}

(* ------------------------------------------------------------------ *)
(* C4                                                                  *)
(* ------------------------------------------------------------------ *)

\* C4: the gallery is built without an exception, holds exactly one entry per
\* stored object named .jpg or .jpeg (case-insensitively), none for any other
\* object, and its entries are in descending order of timestamp.
C4_GalleryNewestFirst ==
    LET built == get_all_images_with_metadata(store)
        view == built.v
    IN  /\ ~built.raised
        /\ \A n \in DOMAIN store :
              NamedJpeg(n) => Cardinality({i \in DOMAIN view : view[i].filename = n}) = 1
        /\ \A i \in DOMAIN view :
              /\ view[i].filename \in DOMAIN store
              /\ NamedJpeg(view[i].filename)
              /\ view[i].timestamp.k = "num"
        /\ \A i \in 1..(Len(view) - 1) : view[i].timestamp.n >= view[i + 1].timestamp.n

\* a.jpg, uploaded later than B.JPG, is listed after it and shown before it
C4_Witness ==
    /\ Len(View) = 2
    /\ View[1].filename = NameAJpg
    /\ View[2].filename = NameBJPG
    /\ View[1].timestamp.n > View[2].timestamp.n
    /\ View[2].timestamp.n > 0

(* ------------------------------------------------------------------ *)
(* C5                                                                  *)
(* ------------------------------------------------------------------ *)

\* the metadata names looked up
MetadataNames == {JsonName(f) : f \in Filenames}

\* C5: load of a metadata name with no object in the bucket does not fail
\* and returns placeholder title and description with timestamp 0; in the
\* gallery an entry built from the placeholder comes after every entry whose
\* metadata document exists with a real timestamp.
C5_MissingMetadataLast ==
    /\ \A n \in MetadataNames :
          n \notin DOMAIN store =>
              LET m == get_json_from_cloud(store, n)
              IN  /\ ~m.raised
                  /\ m.v.k = "obj"
                  /\ {m.v.d[i].key : i \in DOMAIN m.v.d}
                        = {"title", "description", "upload_timestamp"}
                  /\ DictGet(m.v.d, "title", VNull).k = "str"
                  /\ DictGet(m.v.d, "description", VNull).k = "str"
                  /\ DictGet(m.v.d, "upload_timestamp", VNull) = VNum(0)
    /\ LET view == View
       IN  \A i, j \in DOMAIN view :
              (DerivedName(view[i].filename) \notin DOMAIN store
                  /\ DerivedName(view[j].filename) \in DOMAIN store
                  /\ view[j].timestamp.n > 0)
              => j < i

\* B.JPG has no metadata document, a.jpg has one: B.JPG is listed first and
\* shown last
C5_Witness ==
    /\ Len(View) = 2
    /\ View[2].filename = NameBJPG
    /\ DerivedName(NameBJPG) \notin DOMAIN store
    /\ View[2].timestamp = VNum(0)
    /\ DerivedName(View[1].filename) \in DOMAIN store
    /\ View[1].timestamp.n > 0

(* ------------------------------------------------------------------ *)
(* C6                                                                  *)
(* ------------------------------------------------------------------ *)

\* C6: save(metadata, f) stamps the metadata with the clock's reading as it
\* is called, an integer, and right after its write load of the derived name
\* returns the title and description saved with that upload_timestamp, and
\* save has returned the derived name.
C6_SaveLoadRoundTrip ==
    [][\A r \in Reqs :
          /\ (req[r].pc = "uploaded" /\ req'[r].pc = "stamped")
             => \A saved \in {req[r].data.d}, stamped \in {req'[r].data.d} :
                   /\ \A key \in {"title", "description"} :
                         /\ DictHas(stamped, key) <=> DictHas(saved, key)
                         /\ DictGet(stamped, key, VNull) = DictGet(saved, key, VNull)
                   /\ DictGet(stamped, "upload_timestamp", VNull) = VNum(req'[r].clock)
          /\ (req[r].pc = "stamped" /\ req'[r].pc = "stored")
             => /\ req'[r].ret = DerivedName(req[r].fname)
                /\ req'[r].ret \in DOMAIN store'
                /\ \A m \in {get_json_from_cloud(store', req'[r].ret)} :
                   \A saved \in {req[r].data.d} :
                      /\ ~m.raised
                      /\ m.v.k = "obj"
                      /\ \A key \in {"title", "description", "upload_timestamp"} :
                            /\ DictHas(m.v.d, key) <=> DictHas(saved, key)
                            /\ DictGet(m.v.d, key, VNull) = DictGet(saved, key, VNull)
                      /\ DictGet(m.v.d, "upload_timestamp", VNull).k = "num"]_vars

\* the metadata of a.jpg, titled "Cat" and stamped 2, was saved over a
\* document saved before
C6_Witness ==
    \E r \in Reqs :
        /\ req[r].pc = "stored"
        /\ req[r].fname = NameAJpg
        /\ req[r].ret \in DOMAIN store
        /\ DictGet(req[r].data.d, "title", VNull) = VStr("Cat")
        /\ DictGet(req[r].data.d, "upload_timestamp", VNull) = VNum(2)
        /\ nUploads = 2

(* ------------------------------------------------------------------ *)
(* C7                                                                  *)
(* ------------------------------------------------------------------ *)

\* C7: every upload request that has ended was answered with the redirect.
C7_AlwaysRedirect ==
    last # NoRequest => last.response = "redirect"

\* C7, amended: a request ends with the redirect exactly when no step of it
\* raised, that is when its file was ignored or when its last step deleted
\* the transient file after the image and the metadata were stored; when a
\* step raises (among the cases: the request carries no file field, or the
\* file cannot be made under ./uploads), the request ends with the error and
\* not with the redirect.
C7_RedirectUnlessStepRaises ==
    [][\A r \in Reqs :
          EndsNow(r)
          => /\ last'.response \in {"redirect", "error"}
             /\ last'.response = "error" <=> last'.failedAt # "none"
             /\ ~last'.file => last'.response = "error"
             /\ last'.response = "redirect"
                <=> \/ last'.file /\ ~NamedJpeg(last'.fname)
                    \/ /\ req[r].pc = "stored"
                       /\ TempPath(req[r].fname) \in DOMAIN localFS
                       /\ TempPath(req[r].fname) \notin DOMAIN localFS'
                       /\ req[r].fname \in DOMAIN store'
                       /\ req[r].ret \in DOMAIN store']_vars

\* the image upload of a second a.jpg failed and the request ended with the
\* error, after a first a.jpg had gone through to the redirect
C7_Witness ==
    /\ last.response = "error"
    /\ last.failedAt = "image"
    /\ last.fault
    /\ last.fname = NameAJpg
    /\ DOMAIN store = {NameAJpg, DerivedName(NameAJpg)}
    /\ TempPath(NameAJpg) \in DOMAIN localFS
    /\ \A r \in Reqs : req[r].pc = "idle"

(* ------------------------------------------------------------------ *)
(* C8                                                                  *)
(* ------------------------------------------------------------------ *)

\* the bytes of an image object, or the title, description and timestamp of
\* a metadata document, are the same in blobs a and b
SameContent(a, b) ==
    /\ a.ctype = b.ctype
    /\ a.bytes = b.bytes
    /\ \A x \in {Loads(a.text)}, y \in {Loads(b.text)} :
          \A key \in {"title", "description", "upload_timestamp"} :
              x.ok /\ y.ok /\ x.v.k = "obj" /\ y.v.k = "obj"
              => DictGet(x.v.d, key, VNull) = DictGet(y.v.d, key, VNull)

\* C8: no step removes a stored object or changes the bytes of an image
\* object or the title, description or timestamp of a metadata document.
C8_ObjectsImmutable ==
    [][\A n \in DOMAIN store :
          n \in DOMAIN store' /\ SameContent(store[n], store'[n])]_vars

\* C8, amended: no step removes a stored object, and a step changes a stored
\* object only by overwriting it: the image object named as the file of the
\* request uploading its image, or the metadata document named as the derived
\* name of the request saving its metadata; every other object is unchanged.
C8_OnlyReuploadOverwrites ==
    [][\A n \in DOMAIN store :
          /\ n \in DOMAIN store'
          /\ store'[n] # store[n]
             => \E r \in Reqs :
                   /\ req'[r] # req[r]
                   /\ NamedJpeg(req[r].fname)
                   /\ \/ req[r].pc = "read" /\ n = req[r].fname
                      \/ req[r].pc = "stamped" /\ n = DerivedName(req[r].fname)]_vars

\* a.jpg was uploaded a second time: its object holds the second upload's
\* bytes while a.json is still the first upload's
C8_Witness ==
    /\ DOMAIN store = {NameAJpg, DerivedName(NameAJpg)}
    /\ store[NameAJpg].bytes = ContentOf(2)
    /\ req[2].pc = "uploaded"
    /\ req[2].fname = NameAJpg
    /\ req[1].pc = "idle"

(* ------------------------------------------------------------------ *)
(* C9                                                                  *)
(* ------------------------------------------------------------------ *)

\* C9: every request uploads the bytes it received and fails at no step
\* for a reason other than a failure of the remote call of that step.  A
\* request running alone does both, so this says that concurrent requests
\* for one name do not disturb each other.
C9_SameNameUploadsIndependent ==
    /\ \A r \in Reqs : HasRead(r) => req[r].sent = req[r].bytes
    /\ ~(last.failedAt \in {"annotate", "image", "remove"} /\ ~last.fault)

(* ------------------------------------------------------------------ *)
(* C10                                                                 *)
(* ------------------------------------------------------------------ *)

\* C10: when a request ends because its metadata upload failed, it gets the
\* error, its image object is in the store, and the store holds no metadata
\* document under the derived name.
C10_OrphanHasNoMetadata ==
    [][\A r \in Reqs :
          (EndsNow(r) /\ last'.failedAt = "metadata")
          => /\ last'.response = "error"
             /\ req[r].fname \in DOMAIN store'
             /\ DerivedName(req[r].fname) \notin DOMAIN store']_vars

\* C10, amended: the steps run in the order persist, annotate, upload image,
\* save metadata, delete; the step in which the metadata upload fails ends
\* the request with the error and changes neither the bucket nor the local
\* files: the image object stays, nothing is rolled back, and the request
\* writes no metadata document (one left under the derived name by another
\* upload stays as it was).
C10_FailedSaveWritesNothing ==
    [][\A r \in Reqs :
          /\ (req'[r].pc # req[r].pc /\ ~(req'[r].pc = "idle" /\ last'.response = "error"))
             => <<req[r].pc, req'[r].pc>> \in StepOrder
          /\ req[r].pc \in {"opened", "saved", "attached", "submitted"} => req[r].data = VNull
          /\ req[r].pc \in {"opened", "saved", "attached", "submitted", "annotated", "read"}
             => req[r].ret = <<>>
          /\ req[r].pc \in {"uploaded", "stamped"}
             => req[r].fname \in DOMAIN store /\ req[r].ret = <<>>
          /\ req[r].pc = "stored" => req[r].fname \in DOMAIN store /\ req[r].ret \in DOMAIN store
          /\ (req[r].pc \in {"uploaded", "stamped"} /\ req'[r].pc = "idle")
             => /\ last'.response = "error"
                /\ last'.failedAt = "metadata"
                /\ store' = store
                /\ localFS' = localFS
                /\ req[r].fname \in DOMAIN store']_vars

\* the metadata upload of a second a.jpg failed: the image is the second
\* upload's, the metadata document is still the first upload's
C10_Witness ==
    /\ last.failedAt = "metadata"
    /\ last.fault
    /\ last.fname = NameAJpg
    /\ DOMAIN store = {NameAJpg, DerivedName(NameAJpg)}
    /\ store[NameAJpg].bytes = ContentOf(2)
    /\ \A r \in Reqs : req[r].pc = "idle"

====
